---- MODULE Spec2Model ----
(***************************************************************************)
(* Model of prism: the userspace process (src/main.go) that attaches the   *)
(* TC classifiers, reads the kernel transport and feeds the dispatch       *)
(* queue, and the kernel probe (src/bpf/http/tc_http.c) that copies frame  *)
(* prefixes into the ring buffer.                                          *)
(*                                                                         *)
(* Spec       : one run of main() with its goroutines.                     *)
(* SpecProbe  : the classifier programs running on frames at both hooks.   *)
(* SpecAttach : attachTC and FilterDel on an interface that may carry      *)
(*              filters of an earlier run.                                 *)
(* SpecPipe   : events carried with their contents from the ingress        *)
(*              classifier to the consumer's slice.                        *)
(***************************************************************************)
EXTENDS Integers, Sequences, FiniteSets, TLC

(***************************************************************************)
(* Bounds of the model.                                                    *)
(***************************************************************************)
\* Events the reader decodes in one run (one more than the queue holds, so
\* that the send blocks on a full queue).
MaxEvents == 101
\* Termination signals the environment delivers in one run.
MaxSignals == 1
\* Kernel versions are the ordinals 0..MaxKernelVersion.
MaxKernelVersion == 2
\* attachTC calls that succeed for one parent in SpecAttach (twice as many
\* calls are made in all).
MaxAttach == 2

(***************************************************************************)
(* Program constants.                                                      *)
(***************************************************************************)
\* make(chan ringbufHttpDataEvent, 100) / make(chan perfHttpDataEvent, 100)
QueueCap == 100
\* #define MAX_DATA_SIZE 4000
MAX_DATA_SIZE == 4000
\* sizeof(struct http_data_event): enum (4) + data + __u32 (4); the size
\* binary.Read needs to fill ringbufHttpDataEvent / perfHttpDataEvent.
EventSize == 4 + MAX_DATA_SIZE + 4

\* Bounds of SpecProbe.
\* Records the ring buffer holds before a reservation fails.
RingSlots == 2

\* src/bpf/http/tc_http.c 8-24
TC_ACT_UNSPEC == -1
TC_ACT_OK == 0
TC_ACT_SHOT == 2
TC_ACT_STOLEN == 4
TC_ACT_REDIRECT == 7
ETH_P_IP == 2048
ETH_HLEN == 14
IP_HLEN == 20
TCP_HLEN == 20
HTTP_DATA_MIN_SIZE == 91
\* enum tc_type { Egress, Ingress }
Egress == 0
Ingress == 1
\* IPPROTO_TCP and the offsets of ethhdr.h_proto and iphdr.protocol
IPPROTO_TCP == 6
H_PROTO_OFF == 12
PROTOCOL_OFF == 9
\* key and max_entries of data_buffer_heap
kZero == 0
HEAP_MAX_ENTRIES == 1

\* A frame is its length, the Ethertype and IP protocol its headers carry
\* (when it is long enough to carry them) and a fixed payload pattern.
NoFrame == [len |-> 0, ethertype |-> 0, protocol |-> 0]

\* Version thresholds of the capability detector (versions are ordinals).
minKernelVer == 1
maxKernelVer == 2

isMinKernelVer(v) == v >= minKernelVer
isMaxKernelVer(v) == v >= maxKernelVer

\* Network interfaces present on the host.
Interfaces == {"lo"}
\* Values of the -n flag.
InterfaceNames == {"", "lo", "eth9"}
KernelVersions == 0..MaxKernelVersion

\* netlink.HANDLE_MIN_INGRESS / netlink.HANDLE_MIN_EGRESS
HANDLE_MIN_INGRESS == "ingress"
HANDLE_MIN_EGRESS == "egress"
Parents == {HANDLE_MIN_INGRESS, HANDLE_MIN_EGRESS}

VARIABLES
    proc,          \* "running" | "exited" (main returned) | "fatal" (os.Exit(1)) | "crashed" (panic)
    mainPc,        \* position of the main goroutine
    InterfaceName, \* flag -n
    kernelVersion, \* what GetKernelVersion reports on this host
    variant,       \* "none" | "ringbuf" | "perf": the branch of main taken
    objs,          \* TRUE while the probe objects are loaded in the kernel
    qdisc,         \* TRUE once the clsact qdisc is on the interface
    filters,       \* parent -> number of active filters of this program
    attachCalls,   \* parent -> successful attachTC calls of this run
    delCalls,      \* parent -> netlink.FilterDel calls of this run
    qdiscCalls,    \* netlink.QdiscReplace calls of this run
    mainDefers,    \* deferred calls of main(), last pushed first
    runDefers,     \* deferred calls of runRingBuf / runPerf
    panicking,     \* TRUE while the main goroutine unwinds a panic
    notified,      \* signal.Notify(stopper, ...) has run
    stopper,       \* signals buffered in the stopper channel (capacity 1)
    sigCount,      \* signals delivered so far
    rd,            \* "none" | "open" | "closed": the transport reader
    db,            \* TRUE while the leveldb store is open
    queueTask,     \* the dispatch queue's buffered tasks
    queueState,    \* "none" | "open" | "closed"
    task,          \* the task the consumer received last (0: none yet)
    record,        \* length of the RawSample the reader loop holds (0: none)
    decoded,       \* events decoded so far; an event is known by its number
    shutPc,        \* position of the shutdown goroutine
    consPc,        \* position of the consumer goroutine
    http_events,   \* the ring buffer: submitted events not yet read, oldest first
    skb,           \* the frame of the latest classifier call
    hook,          \* the tc_type the latest call was made with
    ret,           \* the action code the latest call returned
    branch,        \* the return statement the latest call left by ("idle": no call yet)
    name_pos,      \* bytes the latest call's copy loop wrote
    emitted,       \* events the latest call added to the ring
    reserved,      \* ring records the latest call reserved
    sample,        \* record.RawSample the reader loop holds (at most one)
    decodedEvent,  \* `event` of the reader loop: decoded, not yet sent (at most one)
    parsed,        \* the slice the consumer handed to parseHttp last (at most one)
    submitted,     \* events the probe submitted that the consumer has not taken yet
    origin         \* the submitted event the consumer's latest task came from

procVars == <<proc, mainPc, panicking>>
hostVars == <<InterfaceName, kernelVersion, variant, objs>>
tcVars == <<qdisc, filters, attachCalls, delCalls, qdiscCalls>>
deferVars == <<mainDefers, runDefers>>
sigVars == <<notified, stopper, sigCount>>
chanVars == <<queueTask, queueState, task>>
readVars == <<rd, db, record, decoded>>
goVars == <<shutPc, consPc>>

probeVars == <<http_events, skb, hook, ret, branch, name_pos, emitted, reserved>>
userVars == <<procVars, hostVars, tcVars, deferVars, sigVars, chanVars, readVars, goVars>>

pipeVars == <<sample, decodedEvent, parsed, submitted, origin>>

vars == <<userVars, probeVars, pipeVars>>

Running == proc = "running"

InitUser ==
    /\ proc = "running"
    /\ mainPc = "lookup"
    /\ InterfaceName \in InterfaceNames
    /\ kernelVersion \in KernelVersions
    /\ variant = "none"
    /\ objs = FALSE
    /\ qdisc = FALSE
    /\ filters = [p \in Parents |-> 0]
    /\ attachCalls = [p \in Parents |-> 0]
    /\ delCalls = [p \in Parents |-> 0]
    /\ qdiscCalls = 0
    /\ mainDefers = <<>>
    /\ runDefers = <<>>
    /\ panicking = FALSE
    /\ notified = FALSE
    /\ stopper = 0
    /\ sigCount = 0
    /\ rd = "none"
    /\ db = FALSE
    /\ queueTask = <<>>
    /\ queueState = "none"
    /\ task = 0
    /\ record = 0
    /\ decoded = 0
    /\ shutPc = "none"
    /\ consPc = "none"

\* No classifier is attached, so none has run.
ProbeIdle ==
    /\ http_events = <<>>
    /\ skb = NoFrame
    /\ hook = "none"
    /\ ret = TC_ACT_UNSPEC
    /\ branch = "idle"
    /\ name_pos = 0
    /\ emitted = 0
    /\ reserved = 0

\* Nothing has been read from the transport.
PipeIdle ==
    /\ sample = <<>>
    /\ decodedEvent = <<>>
    /\ parsed = <<>>
    /\ submitted = <<>>
    /\ origin = <<>>

Init == InitUser /\ ProbeIdle /\ PipeIdle

(***************************************************************************)
(* log.Fatalf / log.Fatal: os.Exit(1).  The process ends at once; no       *)
(* deferred call of any goroutine runs.                                    *)
(***************************************************************************)
Fatal ==
    /\ proc' = "fatal"
    /\ UNCHANGED <<mainPc, panicking>>

\* A main-goroutine step that only moves to the next statement.
Goto(pc) ==
    /\ mainPc' = pc
    /\ UNCHANGED <<proc, panicking>>

Push(stack, call) == <<call>> \o stack
Deferred(fn, arg) == [fn |-> fn, arg |-> arg]

(***************************************************************************)
(* main(): start-up (src/main.go 42-110).                                  *)
(***************************************************************************)
\* main going on although the interface was not found.
LookupInterfaceIgnoringError ==
    /\ Running /\ mainPc = "lookup"
    /\ IF InterfaceName = ""
       THEN Fatal
       ELSE Goto("kver")
    /\ UNCHANGED <<hostVars, tcVars, deferVars, sigVars, chanVars, readVars, goVars>>
    /\ UNCHANGED <<probeVars, pipeVars>>

\* lines 45-52: the -n flag must be set and name an interface of the host.
LookupInterface ==
    /\ Running /\ mainPc = "lookup"
    /\ IF InterfaceName = "" \/ InterfaceName \notin Interfaces
       THEN Fatal
       ELSE Goto("kver")
    /\ UNCHANGED <<hostVars, tcVars, deferVars, sigVars, chanVars, readVars, goVars>>
    /\ UNCHANGED <<probeVars, pipeVars>>

\* lines 54-61: GetKernelVersion may fail; a version below the minimum is fatal.
CheckKernel ==
    /\ Running /\ mainPc = "kver"
    /\ \E readable \in BOOLEAN :
        IF ~readable \/ ~isMinKernelVer(kernelVersion)
        THEN Fatal
        ELSE Goto("load")
    /\ UNCHANGED <<hostVars, tcVars, deferVars, sigVars, chanVars, readVars, goVars>>
    /\ UNCHANGED <<probeVars, pipeVars>>

\* main with the two branches of line 75 exchanged.
LoadObjectsSwapped ==
    /\ Running /\ mainPc = "load"
    /\ variant' = IF isMaxKernelVer(kernelVersion) THEN "perf" ELSE "ringbuf"
    /\ \E ok \in BOOLEAN :
        IF ok
        THEN /\ objs' = TRUE
             /\ mainDefers' = Push(mainDefers, Deferred("objs.Close", "objs"))
             /\ Goto("link")
        ELSE /\ Fatal
             /\ UNCHANGED <<objs, mainDefers>>
    /\ UNCHANGED <<InterfaceName, kernelVersion, tcVars, runDefers, sigVars, chanVars,
                   readVars, goVars>>
    /\ UNCHANGED <<probeVars, pipeVars>>

\* lines 75-81 and 125-131: isMaxKernelVer picks the branch; the branch's
\* objects are loaded and objs.Close() is deferred.
LoadObjects ==
    /\ Running /\ mainPc = "load"
    /\ variant' = IF isMaxKernelVer(kernelVersion) THEN "ringbuf" ELSE "perf"
    /\ \E ok \in BOOLEAN :
        IF ok
        THEN /\ objs' = TRUE
             /\ mainDefers' = Push(mainDefers, Deferred("objs.Close", "objs"))
             /\ Goto("link")
        ELSE /\ Fatal
             /\ UNCHANGED <<objs, mainDefers>>
    /\ UNCHANGED <<InterfaceName, kernelVersion, tcVars, runDefers, sigVars, chanVars,
                   readVars, goVars>>
    /\ UNCHANGED <<probeVars, pipeVars>>

\* lines 83-86 and 133-136: netlink.LinkByIndex.
LinkByIndex ==
    /\ Running /\ mainPc = "link"
    /\ \E ok \in BOOLEAN : IF ok THEN Goto("attachIngress") ELSE Fatal
    /\ UNCHANGED <<hostVars, tcVars, deferVars, sigVars, chanVars, readVars, goVars>>
    /\ UNCHANGED <<probeVars, pipeVars>>

\* lines 269-282: create-or-replace of the clsact qdisc; replacing the
\* clsact qdisc that is there keeps it and its filters.
replaceQdisc(ok) ==
    /\ qdisc' = (qdisc \/ ok)
    /\ qdiscCalls' = qdiscCalls + 1

\* A filter call that adds a filter beside the one in place.
FilterAdd(parent, ok) ==
    filters' = IF ok THEN [filters EXCEPT ![parent] = @ + 1] ELSE filters

\* netlink.FilterReplace (line 303): handle 1, priority 1 under the parent;
\* an existing filter with that handle and priority is replaced.
FilterReplace(parent, ok) ==
    filters' = IF ok THEN [filters EXCEPT ![parent] = 1] ELSE filters

\* attachTC going on to the filter although the qdisc call failed.
attachTCIgnoringQdisc(parent, qok, fok) ==
    /\ replaceQdisc(qok)
    /\ FilterReplace(parent, fok)

\* lines 285-308: attachTC; qok and fok are the outcomes of the two netlink
\* calls.  The filter is touched only when the qdisc call succeeded.
attachTC(parent, qok, fok) ==
    /\ replaceQdisc(qok)
    /\ IF qok THEN FilterReplace(parent, fok) ELSE UNCHANGED filters

\* The attach step of main for one parent: fatal on error, else the
\* filter's deletion is deferred (lines 88-92, 94-98, 138-142, 144-148).
AttachStep(parent, next) ==
    \E qok, fok \in BOOLEAN :
        /\ attachTC(parent, qok, fok)
        /\ IF qok /\ fok
           THEN /\ attachCalls' = [attachCalls EXCEPT ![parent] = @ + 1]
                /\ mainDefers' = Push(mainDefers, Deferred("FilterDel", parent))
                /\ Goto(next)
           ELSE /\ Fatal
                /\ UNCHANGED <<attachCalls, mainDefers>>

AttachIngress ==
    /\ Running /\ mainPc = "attachIngress"
    /\ AttachStep(HANDLE_MIN_INGRESS, "attachEgress")
    /\ UNCHANGED <<hostVars, delCalls, runDefers, sigVars, chanVars, readVars, goVars>>
    /\ UNCHANGED <<probeVars, pipeVars>>

AttachEgress ==
    /\ Running /\ mainPc = "attachEgress"
    /\ AttachStep(HANDLE_MIN_EGRESS, "notify")
    /\ UNCHANGED <<hostVars, delCalls, runDefers, sigVars, chanVars, readVars, goVars>>
    /\ UNCHANGED <<probeVars, pipeVars>>

\* lines 101-102 and 151-152: the stopper channel and signal.Notify.
NotifySignals ==
    /\ Running /\ mainPc = "notify"
    /\ notified' = TRUE
    /\ Goto("newReader")
    /\ UNCHANGED <<hostVars, tcVars, deferVars, stopper, sigCount, chanVars, readVars,
                   goVars>>
    /\ UNCHANGED <<probeVars, pipeVars>>

\* lines 104-107 (ringbuf.NewReader) and 156-160 (perf.NewReader, whose
\* Close is deferred).
NewReader ==
    /\ Running /\ mainPc = "newReader"
    /\ \E ok \in BOOLEAN :
        IF ok
        THEN /\ rd' = "open"
             /\ mainDefers' = IF variant = "perf"
                              THEN Push(mainDefers, Deferred("rd.Close", "rd"))
                              ELSE mainDefers
             /\ Goto("goShutdown")
        ELSE /\ Fatal
             /\ UNCHANGED <<rd, mainDefers>>
    /\ UNCHANGED <<hostVars, tcVars, runDefers, sigVars, chanVars, db, record, decoded,
                   goVars>>
    /\ UNCHANGED <<probeVars, pipeVars>>

\* lines 110-121 and 163-174: the queue is made and the shutdown goroutine
\* started.
GoShutdown ==
    /\ Running /\ mainPc = "goShutdown"
    /\ queueState' = "open"
    /\ shutPc' = "wait"
    /\ Goto("openDB")
    /\ UNCHANGED <<hostVars, tcVars, deferVars, sigVars, queueTask, task, readVars,
                   consPc>>
    /\ UNCHANGED <<probeVars, pipeVars>>

(***************************************************************************)
(* runRingBuf / runPerf (src/main.go 182-223, 225-266); the two differ     *)
(* only in the type of the event.                                          *)
(***************************************************************************)
\* lines 184-188 and 227-231.
OpenDB ==
    /\ Running /\ mainPc = "openDB"
    /\ \E ok \in BOOLEAN :
        IF ok
        THEN /\ db' = TRUE
             /\ runDefers' = Push(runDefers, Deferred("db.Close", "db"))
             /\ Goto("startWorkers")
        ELSE /\ Fatal
             /\ UNCHANGED <<db, runDefers>>
    /\ UNCHANGED <<hostVars, tcVars, mainDefers, sigVars, chanVars, rd, record, decoded,
                   goVars>>
    /\ UNCHANGED <<probeVars, pipeVars>>

\* lines 190-201 and 233-244: the consumer of queueTask is started (with
\* the saver and the listener, which do not touch this state).
StartWorkers ==
    /\ Running /\ mainPc = "startWorkers"
    /\ consPc' = "range"
    /\ Goto("read")
    /\ UNCHANGED <<hostVars, tcVars, deferVars, sigVars, chanVars, readVars, shutPc>>
    /\ UNCHANGED <<probeVars, pipeVars>>

\* RawSample lengths a Read can hand back: an empty sample (a perf record
\* that only reports lost samples), a truncated one, a whole event.
RawSampleLens == {0, EventSize - 1, EventSize}

\* binary.Read(bytes.NewBuffer(raw), binary.LittleEndian, &event) fills the
\* fixed-size event: it fails (EOF / ErrUnexpectedEOF) on fewer bytes.
binaryRead(rawLen) == rawLen >= EventSize

\* lines 206 and 249, err == nil: a record is read.
ReadRecord ==
    /\ Running /\ mainPc = "read"
    /\ rd = "open"
    /\ decoded < MaxEvents
    /\ \E rawLen \in RawSampleLens : record' = rawLen
    /\ Goto("decode")
    /\ UNCHANGED <<hostVars, tcVars, deferVars, sigVars, chanVars, rd, db, decoded, goVars>>
    /\ UNCHANGED <<probeVars, pipeVars>>

\* lines 207-213 and 250-256: an error other than ErrClosed.
ReadError ==
    /\ Running /\ mainPc = "read"
    /\ rd = "open"
    /\ Goto("logErr")
    /\ UNCHANGED <<hostVars, tcVars, deferVars, sigVars, chanVars, readVars, goVars>>
    /\ UNCHANGED <<probeVars, pipeVars>>

\* lines 212-213 and 255-256: log and continue.
LogReadError ==
    /\ Running /\ mainPc = "logErr"
    /\ Goto("read")
    /\ UNCHANGED <<hostVars, tcVars, deferVars, sigVars, chanVars, readVars, goVars>>
    /\ UNCHANGED <<probeVars, pipeVars>>

\* lines 208-211 and 251-254: Read on a closed reader returns ErrClosed and
\* the loop returns.
ReadClosed ==
    /\ Running /\ mainPc = "read"
    /\ rd = "closed"
    /\ Goto("unwindRun")
    /\ UNCHANGED <<hostVars, tcVars, deferVars, sigVars, chanVars, readVars, goVars>>
    /\ UNCHANGED <<probeVars, pipeVars>>

\* lines 217-220 and 260-263: decode; a failure drops the record.
Decode ==
    /\ Running /\ mainPc = "decode"
    /\ IF binaryRead(record)
       THEN /\ decoded' = decoded + 1
            /\ Goto("send")
       ELSE /\ UNCHANGED decoded
            /\ Goto("read")
    /\ record' = 0
    /\ UNCHANGED <<hostVars, tcVars, deferVars, sigVars, chanVars, rd, db, goVars>>
    /\ UNCHANGED <<probeVars, pipeVars>>

\* lines 221 and 264, queueTask <- event, on an open channel: blocks while
\* the buffer is full.
Send ==
    /\ Running /\ mainPc = "send"
    /\ queueState = "open"
    /\ Len(queueTask) < QueueCap
    /\ queueTask' = Append(queueTask, decoded)
    /\ Goto("read")
    /\ UNCHANGED <<hostVars, tcVars, deferVars, sigVars, queueState, task, readVars,
                   goVars>>
    /\ UNCHANGED <<probeVars, pipeVars>>

\* lines 221 and 264 on a closed channel: "send on closed channel" panics,
\* also for a sender that was blocked when the channel was closed.  The
\* main goroutine starts to unwind.
SendOnClosed ==
    /\ Running /\ mainPc = "send"
    /\ queueState = "closed"
    /\ panicking' = TRUE
    /\ mainPc' = "unwindRun"
    /\ UNCHANGED <<proc, hostVars, tcVars, deferVars, sigVars, chanVars, readVars, goVars>>
    /\ UNCHANGED <<probeVars, pipeVars>>

(***************************************************************************)
(* The consumer goroutine (lines 191-195, 234-238).                        *)
(***************************************************************************)
\* for task := range queueTask { parseHttp(saveChan, task.Data[:task.DataLen]) }
ConsumerRecv ==
    /\ Running /\ consPc = "range"
    /\ queueTask # <<>>
    /\ task' = Head(queueTask)
    /\ queueTask' = Tail(queueTask)
    /\ UNCHANGED <<procVars, hostVars, tcVars, deferVars, sigVars, queueState, readVars,
                   goVars>>
    /\ UNCHANGED <<probeVars, pipeVars>>

\* range ends when the channel is closed and drained.
ConsumerEnd ==
    /\ Running /\ consPc = "range"
    /\ queueTask = <<>> /\ queueState = "closed"
    /\ consPc' = "done"
    /\ UNCHANGED <<procVars, hostVars, tcVars, deferVars, sigVars, chanVars, readVars,
                   shutPc>>
    /\ UNCHANGED <<probeVars, pipeVars>>

(***************************************************************************)
(* The termination signal and the shutdown goroutine (lines 112-121 and    *)
(* 165-174).                                                               *)
(***************************************************************************)
\* os.Interrupt / SIGTERM once signal.Notify has run: a non-blocking send
\* on stopper (capacity 1).
Signal ==
    /\ Running /\ notified
    /\ sigCount < MaxSignals
    /\ sigCount' = sigCount + 1
    /\ stopper' = IF stopper < 1 THEN stopper + 1 ELSE stopper
    /\ UNCHANGED <<procVars, hostVars, tcVars, deferVars, notified, chanVars, readVars,
                   goVars>>
    /\ UNCHANGED <<probeVars, pipeVars>>

\* lines 115 and 168: <-stopper
ShutdownRecv ==
    /\ Running /\ shutPc = "wait"
    /\ stopper > 0
    /\ stopper' = stopper - 1
    /\ shutPc' = "closeQueue"
    /\ UNCHANGED <<procVars, hostVars, tcVars, deferVars, notified, sigCount, chanVars,
                   readVars, consPc>>
    /\ UNCHANGED <<probeVars, pipeVars>>

\* lines 116 and 169: close(queueTask)
ShutdownCloseQueue ==
    /\ Running /\ shutPc = "closeQueue"
    /\ queueState' = "closed"
    /\ shutPc' = "closeRd"
    /\ UNCHANGED <<procVars, hostVars, tcVars, deferVars, sigVars, queueTask, task,
                   readVars, consPc>>
    /\ UNCHANGED <<probeVars, pipeVars>>

\* lines 118-120 and 171-173: rd.Close(); an error is fatal.  Close of a
\* reader that is already closed returns nil.
ShutdownCloseReader ==
    /\ Running /\ shutPc = "closeRd"
    /\ \E ok \in (IF rd = "closed" THEN {TRUE} ELSE BOOLEAN) :
        IF ok
        THEN /\ rd' = "closed"
             /\ shutPc' = "done"
             /\ UNCHANGED procVars
        ELSE /\ Fatal
             /\ UNCHANGED <<rd, shutPc>>
    /\ UNCHANGED <<hostVars, tcVars, deferVars, sigVars, chanVars, db, record, decoded,
                   consPc>>
    /\ UNCHANGED <<probeVars, pipeVars>>

(***************************************************************************)
(* Leaving the functions: deferred calls run last pushed first, on a       *)
(* return and on a panic of the goroutine.                                 *)
(***************************************************************************)
\* netlink.FilterDel(filter); the deferred call's error is dropped.
FilterDel(parent, ok) ==
    /\ delCalls' = [delCalls EXCEPT ![parent] = @ + 1]
    /\ filters' = IF ok THEN [filters EXCEPT ![parent] = 0] ELSE filters

\* One deferred call.
RunDeferred(call) ==
    \E ok \in BOOLEAN :
        /\ IF call.fn = "FilterDel"
           THEN FilterDel(call.arg, ok)
           ELSE UNCHANGED <<delCalls, filters>>
        /\ objs' = IF call.fn = "objs.Close" THEN FALSE ELSE objs
        /\ rd' = IF call.fn = "rd.Close" /\ ok THEN "closed" ELSE rd
        /\ db' = IF call.fn = "db.Close" THEN FALSE ELSE db

\* defer db.Close() of runRingBuf / runPerf (lines 188, 231).
UnwindRun ==
    /\ Running /\ mainPc = "unwindRun"
    /\ runDefers # <<>>
    /\ RunDeferred(Head(runDefers))
    /\ runDefers' = Tail(runDefers)
    /\ UNCHANGED <<procVars, InterfaceName, kernelVersion, variant, qdisc, attachCalls,
                   qdiscCalls,
                   mainDefers, sigVars, chanVars, record, decoded, goVars>>
    /\ UNCHANGED <<probeVars, pipeVars>>

\* Back in main: line 179 after a return, main's deferred calls on a panic.
LeaveRun ==
    /\ Running /\ mainPc = "unwindRun"
    /\ runDefers = <<>>
    /\ Goto(IF panicking THEN "unwindMain" ELSE "logExit")
    /\ UNCHANGED <<hostVars, tcVars, deferVars, sigVars, chanVars, readVars, goVars>>
    /\ UNCHANGED <<probeVars, pipeVars>>

\* line 179: log.Println("Received signal, exiting TC program..")
LogExit ==
    /\ Running /\ mainPc = "logExit"
    /\ Goto("unwindMain")
    /\ UNCHANGED <<hostVars, tcVars, deferVars, sigVars, chanVars, readVars, goVars>>
    /\ UNCHANGED <<probeVars, pipeVars>>

\* main's deferred calls (lines 81, 92, 98 and 131, 142, 148, 160).
UnwindMain ==
    /\ Running /\ mainPc = "unwindMain"
    /\ mainDefers # <<>>
    /\ RunDeferred(Head(mainDefers))
    /\ mainDefers' = Tail(mainDefers)
    /\ UNCHANGED <<procVars, InterfaceName, kernelVersion, variant, qdisc, attachCalls,
                   qdiscCalls,
                   runDefers, sigVars, chanVars, record, decoded, goVars>>
    /\ UNCHANGED <<probeVars, pipeVars>>

\* main is left: the process exits (status 0), or dies of the panic.
ExitMain ==
    /\ Running /\ mainPc = "unwindMain"
    /\ mainDefers = <<>>
    /\ proc' = IF panicking THEN "crashed" ELSE "exited"
    /\ UNCHANGED <<mainPc, panicking, hostVars, tcVars, deferVars, sigVars, chanVars,
                   readVars, goVars>>
    /\ UNCHANGED <<probeVars, pipeVars>>

Next ==
    \/ LookupInterface \/ CheckKernel \/ LoadObjects \/ LinkByIndex
    \/ AttachIngress \/ AttachEgress \/ NotifySignals \/ NewReader \/ GoShutdown
    \/ OpenDB \/ StartWorkers
    \/ ReadRecord \/ ReadError \/ LogReadError \/ ReadClosed \/ Decode
    \/ Send \/ SendOnClosed
    \/ ConsumerRecv \/ ConsumerEnd
    \/ Signal \/ ShutdownRecv \/ ShutdownCloseQueue \/ ShutdownCloseReader
    \/ UnwindRun \/ LeaveRun \/ LogExit \/ UnwindMain \/ ExitMain

Spec == Init /\ [][Next]_vars

(***************************************************************************)
(* Claims about the run of main (checked under Spec).                      *)
(***************************************************************************)
\* The reader loop of runRingBuf / runPerf has been entered and not left.
ReaderInLoop == mainPc \in {"read", "logErr", "decode", "send"}
\* The reader loop has been left (by return or by panic).
ReaderLeft == mainPc \in {"unwindRun", "logExit", "unwindMain"}
\* The shutdown goroutine has taken a signal from stopper.
SignalHandled == shutPc \in {"closeQueue", "closeRd", "done"}

\* C1: no send on queueTask happens after queueTask was closed: the main
\* goroutine never panics with "send on closed channel".
C1_NoSendAfterClose == ~panicking

\* C2: on a signal the reader is closed first, then the reader loop exits,
\* and only then is queueTask closed: whenever queueTask is closed the
\* reader is closed and the reader loop has been left.
C2_QueueClosedAfterReaderExit ==
    queueState = "closed" => (rd = "closed" /\ ReaderLeft)

\* C3: once a signal was handled while the reader loop was running (and
\* the shutdown goroutine ran to its end), the pipeline stops by main's
\* normal exit, whatever the reader was doing: the process does not end in
\* a panic.
C3_SignalEndsInNormalExit ==
    (shutPc = "done" /\ consPc # "none" /\ ~Running) => proc = "exited"

\* C4: on every exit of the process, each filter that was attached has had
\* netlink.FilterDel called on it.
C4_AttachedFiltersDeletedAtExit ==
    ~Running => \A p \in Parents : attachCalls[p] > 0 => delCalls[p] > 0

\* C5: in a run where both filters were attached and a signal was handled
\* while the reader loop was running, at exit FilterDel has been called
\* exactly once on each filter, and the exit is not a fatal one.
C5_EachFilterDeletedOnce ==
    (~Running /\ SignalHandled /\ consPc # "none"
        /\ \A p \in Parents : attachCalls[p] = 1)
    => (proc # "fatal" /\ \A p \in Parents : delCalls[p] = 1)

\* C12: in the reader loop a read error other than ErrClosed and a record
\* that fails to decode skip that one record (nothing is enqueued, nothing
\* counted as decoded, the next statement is the next Read); the main
\* goroutine leaves the loop only at a Read on the closed reader, and a
\* Read on the closed reader always leaves it.
C12_LoopSkipsOneRecordExitsOnClosed ==
    [][ /\ (mainPc = "logErr" /\ mainPc' # mainPc) =>
              (mainPc' = "read" /\ UNCHANGED <<queueTask, decoded>>)
        /\ (mainPc = "decode" /\ ~binaryRead(record) /\ mainPc' # mainPc) =>
              (mainPc' = "read" /\ UNCHANGED <<queueTask, decoded>>)
        /\ (ReaderInLoop /\ ReaderLeft') => (mainPc = "read" /\ rd = "closed")
        /\ (mainPc = "read" /\ rd = "closed" /\ mainPc' # mainPc) => ReaderLeft'
      ]_vars

\* C13: queueTask never holds more than 100 tasks; while it holds 100 the
\* reader stays at its send; the tasks queued are the decoded records that
\* follow the last one received, in decode order, and every decoded record
\* has been received, is queued, or is the one the reader holds at its
\* send: none is dropped, overwritten, repeated or overtaken.
C13_QueueBoundedFifoExactlyOnce ==
    /\ Len(queueTask) <= 100
    /\ (mainPc = "send" /\ Len(queueTask) = 100) => ~ENABLED Send
    /\ \A i \in 1..Len(queueTask) : queueTask[i] = task + i
    /\ decoded = task + Len(queueTask) + (IF mainPc = "send" THEN 1 ELSE 0)

\* The start-up statements of main up to the two attachTC calls, in program
\* order, and the statement that follows each.
StartupPcs == {"lookup", "kver", "load", "link", "attachIngress", "attachEgress"}
NextStatement ==
    [lookup |-> "kver", kver |-> "load", load |-> "link", link |-> "attachIngress",
     attachIngress |-> "attachEgress", attachEgress |-> "notify"]

\* Nothing of this process is in the kernel or on the interface.
NothingInstalled ==
    /\ ~objs /\ ~qdisc
    /\ \A p \in Parents : filters[p] = 0 /\ attachCalls[p] = 0

\* No reader was made, no queue, no goroutine started, nothing read.
ReaderNeverStarted ==
    /\ rd = "none" /\ queueState = "none"
    /\ shutPc = "none" /\ consPc = "none"
    /\ ~db /\ decoded = 0

\* C16: a start-up statement runs once: it either ends the process at once
\* (log.Fatalf) or main goes on to the next statement, never back and never
\* again.  With a missing interface or a kernel below the minimum the only
\* step is the fatal one; a load or attach call that did not succeed ends
\* the process in the same step.  Up to the end of start-up, and so at
\* every such exit, the reader loop has not been started; up to the kernel
\* test, and so at the exits for a missing interface and an old kernel,
\* nothing is loaded or attached.
C16_StartupFailureIsFatal ==
    /\ [](mainPc \in StartupPcs => ReaderNeverStarted)
    /\ [](mainPc \in {"lookup", "kver"} => NothingInstalled)
    /\ []((InterfaceName = "" \/ InterfaceName \notin Interfaces) => mainPc = "lookup")
    /\ [](kernelVersion < minKernelVer => mainPc \in {"lookup", "kver"})
    /\ [][(Running /\ mainPc \in StartupPcs) =>
            /\ proc' = "fatal" \/ mainPc' = NextStatement[mainPc]
            /\ (mainPc = "lookup" /\ InterfaceName \notin Interfaces) => proc' = "fatal"
            /\ (mainPc = "kver" /\ kernelVersion < minKernelVer) => proc' = "fatal"
            /\ (mainPc = "load" /\ ~objs') => proc' = "fatal"
            /\ (mainPc = "attachIngress" /\ filters'[HANDLE_MIN_INGRESS] = 0)
                   => proc' = "fatal"
            /\ (mainPc = "attachEgress" /\ filters'[HANDLE_MIN_EGRESS] = 0)
                   => proc' = "fatal"
         ]_vars

\* The process ended at the interface lookup: the interface named by -n is
\* not on the host.
C16_Witness ==
    /\ proc = "fatal" /\ mainPc = "lookup"
    /\ InterfaceName # "" /\ InterfaceName \notin Interfaces
    /\ NothingInstalled /\ ReaderNeverStarted

\* The attachment state of the interface in this run.  Teardown has begun
\* once a deferred netlink.FilterDel has been called.
TeardownBegun == \E p \in Parents : delCalls[p] > 0
TcState ==
    IF TeardownBegun
    THEN IF \A p \in Parents : filters[p] = 0 THEN "Detached" ELSE "Detaching"
    ELSE IF \A p \in Parents : filters[p] = 1 THEN "BothAttached"
    ELSE IF filters[HANDLE_MIN_INGRESS] = 1 THEN "IngressAttached"
    ELSE IF filters[HANDLE_MIN_EGRESS] = 1 THEN "EgressOnly"
    ELSE IF qdisc THEN "QdiscEnsured"
    ELSE "Detached"

\* The transitions of the lifecycle.  attachTC is one step: its first call
\* goes from Detached through QdiscEnsured to IngressAttached when both of
\* its netlink calls succeed.
Lifecycle ==
    {<<"Detached", "QdiscEnsured">>, <<"QdiscEnsured", "IngressAttached">>,
     <<"Detached", "IngressAttached">>, <<"IngressAttached", "BothAttached">>,
     <<"BothAttached", "Detaching">>, <<"Detaching", "Detached">>}

\* The part of C17 that the code keeps: the attachment state changes only
\* along the lifecycle; a filter is attached only with the qdisc in place;
\* the egress filter is attached only with the ingress filter attached; the
\* reader is made, and the reader loop runs, only in BothAttached.
LifecycleFollowed ==
    /\ [][TcState' = TcState \/ <<TcState, TcState'>> \in Lifecycle]_vars
    /\ []((\E p \in Parents : filters[p] > 0) => qdisc)
    /\ [](TcState # "EgressOnly")
    /\ [][(rd = "none" /\ rd' # "none") => TcState = "BothAttached"]_vars
    /\ [](ReaderInLoop => TcState = "BothAttached")

\* C17 as stated: the lifecycle is followed and the qdisc is replaced once,
\* never again after the ingress filter is attached.
C17_LifecycleNoSecondQdiscReplace ==
    /\ LifecycleFollowed
    /\ [](qdiscCalls <= 1)
    /\ [][filters[HANDLE_MIN_INGRESS] = 1 => qdiscCalls' = qdiscCalls]_vars

\* C17 amended: the lifecycle is followed, and replaceQdisc runs at the
\* start of every attachTC call and nowhere else: once for the ingress
\* filter and a second time, after the ingress filter is attached, for the
\* egress filter.  The second replace leaves the qdisc and the ingress
\* filter as they are.
C17_LifecycleQdiscPerAttach ==
    /\ LifecycleFollowed
    /\ [](qdiscCalls <= 2)
    /\ [](attachCalls[HANDLE_MIN_INGRESS] >= 1 => qdiscCalls >= 1)
    /\ [](attachCalls[HANDLE_MIN_EGRESS] >= 1 => qdiscCalls = 2)
    /\ [][qdiscCalls' # qdiscCalls =>
            /\ mainPc \in {"attachIngress", "attachEgress"}
            /\ qdiscCalls' = qdiscCalls + 1
            /\ filters[HANDLE_MIN_INGRESS] = 1 =>
                   (qdisc' = qdisc /\ filters'[HANDLE_MIN_INGRESS] = 1)
         ]_vars

\* A run went through the whole lifecycle: both filters were attached (the
\* qdisc replaced twice), the reader loop ran, and both filters were
\* deleted as main returned.
C17_Witness ==
    /\ proc = "exited" /\ TcState = "Detached"
    /\ \A p \in Parents : attachCalls[p] = 1 /\ delCalls[p] = 1
    /\ qdiscCalls = 2
    /\ decoded > 0

\* Something of a transport variant is in place: objects loaded, a filter
\* attached or a reader made.
VariantInUse ==
    objs \/ (\E p \in Parents : filters[p] > 0) \/ rd # "none"

\* C14: the branch of main taken is a function of the kernel version: at or
\* above the ring-buffer threshold the ring-buffer branch, for an accepted
\* version below it the perf branch.  Whatever is loaded, attached or read
\* belongs to that one branch (only the perf branch defers rd.Close), and
\* once taken the branch never changes, nor does the version it was taken
\* from.
C14_VariantChosenOnceByKernel ==
    /\ [](variant # "none" =>
            /\ kernelVersion >= minKernelVer
            /\ (kernelVersion >= maxKernelVer) => variant = "ringbuf"
            /\ (kernelVersion < maxKernelVer) => variant = "perf")
    /\ [](VariantInUse => variant \in {"ringbuf", "perf"})
    /\ []((\E i \in 1..Len(mainDefers) : mainDefers[i].fn = "rd.Close")
            => variant = "perf")
    /\ [][(variant # "none" => variant' = variant) /\ kernelVersion' = kernelVersion]_vars

\* On a kernel between the two thresholds the perf branch is loaded,
\* attached and being read.
C14_Witness ==
    /\ kernelVersion >= minKernelVer /\ kernelVersion < maxKernelVer
    /\ variant = "perf"
    /\ objs /\ \A p \in Parents : filters[p] = 1
    /\ rd = "open" /\ mainPc = "read"

(***************************************************************************)
(* attachTC on an interface that may still carry this program's filters    *)
(* (an earlier process was killed before its deferred FilterDel ran).      *)
(* SpecAttach applies attachTC and FilterDel to the interface of a process *)
(* that has loaded its objects, for either parent and repeatedly.          *)
(***************************************************************************)
\* What an earlier instance can leave behind: per parent no filter or the
\* one filter (handle 1, priority 1), and the clsact qdisc with them.
StaleFilters == [Parents -> 0..1]

InitAttach ==
    /\ proc = "running"
    /\ mainPc = "attachIngress"
    /\ InterfaceName = "lo"
    /\ kernelVersion \in {v \in KernelVersions : isMinKernelVer(v)}
    /\ variant = IF isMaxKernelVer(kernelVersion) THEN "ringbuf" ELSE "perf"
    /\ objs = TRUE
    /\ filters \in StaleFilters
    /\ qdisc \in {q \in BOOLEAN : (\E p \in Parents : filters[p] > 0) => q}
    /\ attachCalls = [p \in Parents |-> 0]
    /\ delCalls = [p \in Parents |-> 0]
    /\ qdiscCalls = 0
    /\ mainDefers = <<Deferred("objs.Close", "objs")>>
    /\ runDefers = <<>>
    /\ panicking = FALSE
    /\ notified = FALSE
    /\ stopper = 0
    /\ sigCount = 0
    /\ rd = "none"
    /\ db = FALSE
    /\ queueTask = <<>>
    /\ queueState = "none"
    /\ task = 0
    /\ record = 0
    /\ decoded = 0
    /\ shutPc = "none"
    /\ consPc = "none"
    /\ ProbeIdle /\ PipeIdle

\* One call attachTC(link, fd, name, parent) (lines 285-308).
AttachCall ==
    /\ \E p \in Parents, qok, fok \in BOOLEAN :
        /\ attachCalls[p] < MaxAttach
        /\ qdiscCalls < 2 * MaxAttach
        /\ attachTC(p, qok, fok)
        /\ attachCalls' = IF qok /\ fok
                          THEN [attachCalls EXCEPT ![p] = @ + 1]
                          ELSE attachCalls
    /\ UNCHANGED <<procVars, hostVars, delCalls, deferVars, sigVars, chanVars, readVars,
                   goVars>>
    /\ UNCHANGED <<probeVars, pipeVars>>

\* One call netlink.FilterDel(filter) on a filter this process attached
\* (lines 92, 98, 142, 148).
DeleteCall ==
    /\ \E p \in Parents, ok \in BOOLEAN :
        /\ delCalls[p] < attachCalls[p]
        /\ FilterDel(p, ok)
    /\ UNCHANGED <<procVars, hostVars, qdisc, attachCalls, qdiscCalls, deferVars, sigVars,
                   chanVars, readVars, goVars>>
    /\ UNCHANGED <<probeVars, pipeVars>>

NextAttach == AttachCall \/ DeleteCall

SpecAttach == InitAttach /\ [][NextAttach]_vars

\* C11: each parent (direction) of the interface carries at most one active
\* filter of this program in every state, also when the interface started
\* with a filter of an earlier instance; after attachTC has succeeded twice
\* in succession for a parent (no deletion in between) it carries exactly
\* one.
C11_OneFilterPerDirection ==
    \A p \in Parents :
        /\ filters[p] <= 1
        /\ (attachCalls[p] >= 2 /\ delCalls[p] = 0) => filters[p] = 1

\* attachTC succeeded twice for ingress on an interface whose egress side
\* still carries the filter of an earlier instance.
C11_Witness ==
    /\ attachCalls[HANDLE_MIN_INGRESS] = 2 /\ delCalls[HANDLE_MIN_INGRESS] = 0
    /\ filters[HANDLE_MIN_INGRESS] = 1
    /\ attachCalls[HANDLE_MIN_EGRESS] = 0
    /\ filters[HANDLE_MIN_EGRESS] = 1

(***************************************************************************)
(* The kernel probe (src/bpf/http/tc_http.c).                              *)
(***************************************************************************)
\* Frames offered to the classifiers: the lengths on both sides of each
\* comparison the probe makes.
FrameLens ==
    {ETH_HLEN + IP_HLEN + TCP_HLEN - 1, ETH_HLEN + IP_HLEN + TCP_HLEN,
     HTTP_DATA_MIN_SIZE, HTTP_DATA_MIN_SIZE + 1,
     MAX_DATA_SIZE, MAX_DATA_SIZE + 1}
\* IPv4 and ARP.
EtherTypes == {ETH_P_IP, 2054}
\* TCP and UDP.
Protocols == {IPPROTO_TCP, 17}
Frames == [len : FrameLens, ethertype : EtherTypes, protocol : Protocols]

\* The byte at offset off of the frame, as the wire carries it: the
\* Ethertype big-endian at ethhdr.h_proto, the protocol at iphdr.protocol,
\* elsewhere a pattern that depends on the offset.
FrameByte(f, off) ==
    IF off = H_PROTO_OFF THEN f.ethertype \div 256
    ELSE IF off = H_PROTO_OFF + 1 THEN f.ethertype % 256
    ELSE IF off = ETH_HLEN + PROTOCOL_OFF THEN f.protocol
    ELSE (off * 37 + 11) % 256

\* bpf_htons on the little-endian host: the two bytes swapped.
bpf_htons(x) == (x % 256) * 256 + (x \div 256)
\* eth->h_proto: a 16-bit load in host byte order (line 72).
h_proto(f) == FrameByte(f, H_PROTO_OFF) + 256 * FrameByte(f, H_PROTO_OFF + 1)
\* iph->protocol (line 78).
protocol(f) == FrameByte(f, ETH_HLEN + PROTOCOL_OFF)

\* (__u32) of line 82: x modulo 2^32, written by 16-bit halves.
U32(x) == (x % 65536) + 65536 * ((x \div 65536) % 65536)
\* *(char *)(cursor) stored into a __u8 (line 132).
AsChar(b) == IF b >= 128 THEN b - 256 ELSE b
AsU8(c) == c % 256

\* bpf_map_lookup_elem on the one-entry per-CPU array: NULL (FALSE) only
\* for a key outside the array.
bpf_map_lookup_elem(key) == key < HEAP_MAX_ENTRIES
\* lines 49-57.
create_http_data_event == bpf_map_lookup_elem(kZero)
\* bpf_ringbuf_reserve: NULL (FALSE) when the ring has no room for a record.
bpf_ringbuf_reserve(rb) == Len(rb) < RingSlots

\* line 66: the frame is too short for the three headers.
TooShort(data_start, data_end) ==
    data_start + ETH_HLEN + IP_HLEN + TCP_HLEN > data_end
\* line 72.
NotIPv4(f) == h_proto(f) # bpf_htons(ETH_P_IP)
\* The protocol test inverted.
NotTCPInverted(f) == protocol(f) = IPPROTO_TCP
\* line 78.
NotTCP(f) == protocol(f) # IPPROTO_TCP
\* The minimum-size test with < for <=.
NoHttpStrict(len) == len < HTTP_DATA_MIN_SIZE
\* line 92.
NoHttp(len) == len <= HTTP_DATA_MIN_SIZE
\* data_len without the clamp to MAX_DATA_SIZE.
DataLenUnclamped(len) == len
\* line 114.
DataLen(len) == IF len < MAX_DATA_SIZE THEN len ELSE MAX_DATA_SIZE

\* The loop of lines 123-135 is left before iteration i when the for
\* condition fails or the boundary test breaks (cursor = data_start + i).
LoopStops(i, data_start, data_end) ==
    ~(i < MAX_DATA_SIZE) \/ (data_start + i) + 1 > data_end

\* name_pos when the loop is left: the first i at which it stops.
CopyLoop(data_start, data_end) ==
    CHOOSE i \in 0..MAX_DATA_SIZE :
        /\ LoopStops(i, data_start, data_end)
        /\ \A j \in 0..(i - 1) : ~LoopStops(j, data_start, data_end)

\* The bytes the loop wrote, event->data[0 .. n): data[k] is the byte at
\* cursor = data_start + k (line 132).  The bytes of the array past n are
\* never written by the probe and are not part of the model.
CopiedData(f, n) ==
    [k \in 1..n |-> AsU8(AsChar(FrameByte(f, k - 1)))]

\* A return of capture_packets: the action code, the return statement
\* taken, name_pos, the records reserved on the way and the events
\* submitted on the way (none or one of each).
Return(code, stmt, n, resv, events) ==
    [ret |-> code, branch |-> stmt, name_pos |-> n, reserved |-> resv,
     events |-> events]

\* An early return that drops the packet.
PassThroughShot(stmt) == Return(TC_ACT_SHOT, stmt, 0, 0, <<>>)

\* "return TC_ACT_OK;" before anything is reserved (lines 67, 73, 79, 88,
\* 96, 101).
PassThrough(stmt) == Return(TC_ACT_OK, stmt, 0, 0, <<>>)

\* A failed reservation that drops the packet.
NoMemoryShot == Return(TC_ACT_SHOT, "no_memory", 0, 0, <<>>)

\* lines 105-110: bpf_ringbuf_reserve returned NULL; "return 0;".
NoMemory == Return(0, "no_memory", 0, 0, <<>>)

\* The tail of the function returning without bpf_ringbuf_submit.
SubmitSkipped(n, event) == Return(TC_ACT_OK, "submitted", n, 1, <<>>)

\* lines 112-139: the reserved record is filled, submitted (line 137) and
\* the function returns; no return lies between the reservation and the
\* submit.
Submit(n, event) == Return(TC_ACT_OK, "submitted", n, 1, <<event>>)

\* lines 59-140.  bpf_skb_pull_data has made the frame linear, so that
\* [data_start, data_end) is the whole frame.
capture_packets(f, type, rb) ==
    LET data_start == 0
        data_end == data_start + f.len
        len == U32(data_end - data_start)
        n == CopyLoop(data_start, data_end)
        event == [type |-> type, data |-> CopiedData(f, n), data_len |-> DataLen(len)]
    IN  IF TooShort(data_start, data_end) THEN PassThrough("short")
        ELSE IF NotIPv4(f) THEN PassThrough("not_ip")
        ELSE IF NotTCP(f) THEN PassThrough("not_tcp")
        ELSE IF len < 0 THEN PassThrough("negative")
        ELSE IF NoHttp(len) THEN PassThrough("no_http")
        ELSE IF ~create_http_data_event THEN PassThrough("no_scratch")
        ELSE IF ~bpf_ringbuf_reserve(rb) THEN NoMemory
        ELSE Submit(n, event)

\* One run of a classifier program on the frame f at the hook `fired`.
ClassifyFrame(f, fired, type) ==
    LET out == capture_packets(f, type, http_events)
    IN  /\ http_events' = http_events \o out.events
        /\ skb' = f
        /\ hook' = fired
        /\ ret' = out.ret
        /\ branch' = out.branch
        /\ name_pos' = out.name_pos
        /\ emitted' = Len(out.events)
        /\ reserved' = out.reserved

\* One run of a classifier program at the hook `fired`.
Classify(fired, type) ==
    \E f \in Frames : ClassifyFrame(f, fired, type)

\* lines 143-144, run by the kernel while the egress filter is attached.
egress_cls_func ==
    /\ Running /\ objs
    /\ filters[HANDLE_MIN_EGRESS] > 0
    /\ Classify(HANDLE_MIN_EGRESS, Egress)
    /\ UNCHANGED <<userVars, pipeVars>>

\* The ingress program passing the egress tag.
ingress_cls_func_as_egress ==
    /\ Running /\ objs
    /\ filters[HANDLE_MIN_INGRESS] > 0
    /\ Classify(HANDLE_MIN_INGRESS, Egress)
    /\ UNCHANGED <<userVars, pipeVars>>

\* lines 147-148, run by the kernel while the ingress filter is attached.
ingress_cls_func ==
    /\ Running /\ objs
    /\ filters[HANDLE_MIN_INGRESS] > 0
    /\ Classify(HANDLE_MIN_INGRESS, Ingress)
    /\ UNCHANGED <<userVars, pipeVars>>

\* rd.Read() of the reader loop takes the oldest record out of the ring
\* (src/main.go 206), which makes room for the probe.
RingRead ==
    /\ Running /\ rd = "open"
    /\ http_events # <<>>
    /\ http_events' = Tail(http_events)
    /\ UNCHANGED <<userVars, skb, hook, ret, branch, name_pos, emitted, reserved>>
    /\ UNCHANGED pipeVars

\* The process while it listens: ring-buffer branch, both filters attached,
\* reader open, goroutines started, the reader loop at rd.Read().
Listening ==
    /\ proc = "running"
    /\ mainPc = "read"
    /\ InterfaceName = "lo"
    /\ kernelVersion = maxKernelVer
    /\ variant = "ringbuf"
    /\ objs = TRUE
    /\ qdisc = TRUE
    /\ filters = [p \in Parents |-> 1]
    /\ attachCalls = [p \in Parents |-> 1]
    /\ delCalls = [p \in Parents |-> 0]
    /\ qdiscCalls = 2
    /\ mainDefers = <<Deferred("FilterDel", HANDLE_MIN_EGRESS),
                      Deferred("FilterDel", HANDLE_MIN_INGRESS),
                      Deferred("objs.Close", "objs")>>
    /\ runDefers = <<Deferred("db.Close", "db")>>
    /\ panicking = FALSE
    /\ notified = TRUE
    /\ stopper = 0
    /\ sigCount = 0
    /\ rd = "open"
    /\ db = TRUE
    /\ queueTask = <<>>
    /\ queueState = "open"
    /\ task = 0
    /\ record = 0
    /\ decoded = 0
    /\ shutPc = "wait"
    /\ consPc = "range"

InitProbe == Listening /\ ProbeIdle /\ PipeIdle

NextProbe == egress_cls_func \/ ingress_cls_func \/ RingRead

SpecProbe == InitProbe /\ [][NextProbe]_vars

(***************************************************************************)
(* Claims about the probe (checked under SpecProbe).                       *)
(***************************************************************************)
\* The latest call submitted an event and it is still in the ring, where
\* it is the newest record.
LatestInRing == branch = "submitted" /\ http_events # <<>>
Latest == http_events[Len(http_events)]
Min(a, b) == IF a < b THEN a ELSE b

\* C6: every call of capture_packets, whatever branch it leaves by and at
\* either hook, returns TC_ACT_OK, never shot, stolen or redirect.
C6_AlwaysPassThrough ==
    branch # "idle" =>
        /\ ret = TC_ACT_OK
        /\ ret \notin {TC_ACT_SHOT, TC_ACT_STOLEN, TC_ACT_REDIRECT}

\* A frame that passed every filter met a full ring at the ingress hook.
C6_Witness ==
    /\ branch = "no_memory" /\ hook = HANDLE_MIN_INGRESS
    /\ Len(http_events) = RingSlots
    /\ ret = TC_ACT_OK

C8_ShortFrameNoEvent ==
    (branch # "idle" /\ skb.len <= 91) =>
        (emitted = 0 /\ branch \in {"short", "not_ip", "not_tcp", "no_http"})

\* An IPv4/TCP frame of exactly 91 bytes was seen at the egress hook while
\* the ring had room, and nothing was added.
C8_Witness ==
    /\ branch = "no_http" /\ hook = HANDLE_MIN_EGRESS
    /\ skb.len = 91 /\ skb.ethertype = ETH_P_IP /\ skb.protocol = IPPROTO_TCP
    /\ Len(http_events) < RingSlots
    /\ emitted = 0

\* C9: a call on a frame whose Ethertype is not IPv4 or whose IP protocol
\* is not TCP, whatever its length and hook, adds no event to the ring.
C9_NonTcpIpNoEvent ==
    (branch # "idle" /\ (skb.ethertype # ETH_P_IP \/ skb.protocol # IPPROTO_TCP)) =>
        emitted = 0

\* A long IPv4 frame that is not TCP was seen while the ring had room.
C9_Witness ==
    /\ branch = "not_tcp"
    /\ skb.len > MAX_DATA_SIZE /\ skb.ethertype = ETH_P_IP /\ skb.protocol # IPPROTO_TCP
    /\ Len(http_events) < RingSlots
    /\ emitted = 0

\* C10: a submitted event carries the direction of the hook that fired:
\* type Ingress (1) from the ingress classifier, Egress (0) from the egress
\* classifier.
C10_DirectionIsHook ==
    LatestInRing =>
        /\ hook = HANDLE_MIN_INGRESS => Latest.type = 1
        /\ hook = HANDLE_MIN_EGRESS => Latest.type = 0

\* The ring holds an event of each direction, the newest from ingress.
C10_Witness ==
    /\ LatestInRing /\ hook = HANDLE_MIN_INGRESS
    /\ Latest.type = Ingress
    /\ \E i \in 1..Len(http_events) : http_events[i].type = Egress

\* The frame passes every filter of capture_packets: IPv4, TCP, longer
\* than 91 bytes.
PassesFilters(f) ==
    f.ethertype = ETH_P_IP /\ f.protocol = IPPROTO_TCP /\ f.len > 91

\* The step is rd.Read taking the oldest record out of the ring; every
\* other step of SpecProbe that changes the state is a classifier call.
RingReadStep ==
    /\ http_events # <<>>
    /\ http_events' = Tail(http_events)
    /\ UNCHANGED <<skb, hook, ret, branch, name_pos, emitted, reserved>>

\* C15: a call that finds no room in the ring returns TC_ACT_OK, reserves
\* and submits nothing, leaves the ring with the events submitted before
\* exactly as it was and changes nothing in the userspace process; a frame
\* that passed the filters leaves by the reservation-failure return.  (The
\* call is one step: bpf_ringbuf_reserve does not wait for room.)
C15_FullRingPassesSilently ==
    /\ [](branch = "no_memory" => (ret = TC_ACT_OK /\ emitted = 0 /\ reserved = 0))
    /\ [][(~bpf_ringbuf_reserve(http_events) /\ ~RingReadStep) =>
            /\ http_events' = http_events
            /\ UNCHANGED userVars
            /\ ret' = TC_ACT_OK /\ emitted' = 0 /\ reserved' = 0
            /\ PassesFilters(skb') => branch' = "no_memory"
         ]_vars

\* A frame of 4000 bytes that passed the filters met a full ring at the
\* egress hook.
C15_Witness ==
    /\ branch = "no_memory" /\ hook = HANDLE_MIN_EGRESS
    /\ skb.len = MAX_DATA_SIZE
    /\ Len(http_events) = RingSlots
    /\ emitted = 0 /\ reserved = 0

\* C18: a call on a frame that passes the filters while the ring has room
\* reserves one record and submits one event, which becomes the newest
\* record of the ring behind the ones already there; in every call the
\* records reserved are the events submitted (none or one): nothing is
\* reserved and left, nothing submitted that was not reserved.
C18_ReserveOnceSubmitOnce ==
    /\ [](reserved = emitted /\ reserved <= 1)
    /\ [](reserved = 1 <=> branch = "submitted")
    /\ [][(PassesFilters(skb') /\ bpf_ringbuf_reserve(http_events) /\ ~RingReadStep) =>
            /\ reserved' = 1 /\ emitted' = 1
            /\ Len(http_events') = Len(http_events) + 1
            /\ SubSeq(http_events', 1, Len(http_events)) = http_events
            /\ http_events'[Len(http_events')].data_len = name_pos'
         ]_vars

\* A 92-byte IPv4/TCP frame took the last free record of the ring.
C18_Witness ==
    /\ branch = "submitted" /\ skb.len = 92
    /\ reserved = 1 /\ emitted = 1
    /\ Len(http_events) = RingSlots
    /\ Latest.data_len = 92

(***************************************************************************)
(* The event path, probe to parser: the ingress classifier submits events, *)
(* the reader loop reads, decodes and queues them, the consumer slices     *)
(* them for parseHttp.  Events are carried with their contents.            *)
(***************************************************************************)
\* Tasks the dispatch queue holds in SpecPipe before the reader waits.
MaxQueued == 1

\* IPv4/TCP frames that pass the filters: one shorter than MAX_DATA_SIZE and
\* one longer, which the probe clamps.
PipeFrames ==
    {f \in Frames : /\ f.ethertype = ETH_P_IP
                    /\ f.protocol = IPPROTO_TCP
                    /\ f.len \in {HTTP_DATA_MIN_SIZE + 1, MAX_DATA_SIZE + 1}}

\* A __u32 as the four bytes the little-endian kernel stores.
LE32(x) ==
    <<x % 256, (x \div 256) % 256, (x \div 65536) % 256, (x \div 16777216) % 256>>

\* The ring-buffer record of an event: struct http_data_event as it lies in
\* memory (tc_http.c 26-30), type and data_len as four bytes each.
Wire(e) ==
    [type |-> LE32(e.type), data |-> e.data, data_len |-> LE32(e.data_len)]

\* binary.LittleEndian.Uint32
Uint32LE(b) == b[1] + 256 * b[2] + 65536 * b[3] + 16777216 * b[4]

\* The event with its two integer fields read from each other's bytes.
DecodeEventSwapped(raw) ==
    [Type |-> Uint32LE(raw.data_len), Data |-> raw.data, DataLen |-> Uint32LE(raw.type)]

\* binary.Read(..., binary.LittleEndian, &event) into the generated struct
\* {Type uint32; Data [4000]uint8; DataLen uint32}: the fields in the
\* order of the C struct.
DecodeEvent(raw) ==
    [Type |-> Uint32LE(raw.type), Data |-> raw.data, DataLen |-> Uint32LE(raw.data_len)]

\* task.Data[:task.DataLen] panics when DataLen exceeds the array.
SliceInRange(t) == t.DataLen <= MAX_DATA_SIZE

\* task.Data[:task.DataLen]; -1 stands for an element of the array that
\* the probe did not write.
Slice(t) ==
    [k \in 1..t.DataLen |-> IF k <= Len(t.Data) THEN t.Data[k] ELSE -1]

\* seq without its i-th element.
Without(seq, i) == SubSeq(seq, 1, i - 1) \o SubSeq(seq, i + 1, Len(seq))

InitPipe == Listening /\ ProbeIdle /\ PipeIdle

\* tc_http.c 147-148 on a frame that carries data.
PipeIngress ==
    /\ Running /\ objs
    /\ filters[HANDLE_MIN_INGRESS] > 0
    /\ \E f \in PipeFrames : ClassifyFrame(f, HANDLE_MIN_INGRESS, Ingress)
    /\ submitted' = IF emitted' = 1
                    THEN Append(submitted, http_events'[Len(http_events')])
                    ELSE submitted
    /\ UNCHANGED <<userVars, sample, decodedEvent, parsed, origin>>

\* main.go 206: rd.Read() returns the oldest record of the ring.
PipeRead ==
    /\ Running /\ mainPc = "read"
    /\ rd = "open"
    /\ http_events # <<>>
    /\ Len(queueTask) < MaxQueued
    /\ sample' = <<Wire(Head(http_events))>>
    /\ record' = EventSize
    /\ http_events' = Tail(http_events)
    /\ Goto("decode")
    /\ UNCHANGED <<hostVars, tcVars, deferVars, sigVars, chanVars, rd, db, decoded, goVars>>
    /\ UNCHANGED <<skb, hook, ret, branch, name_pos, emitted, reserved>>
    /\ UNCHANGED <<decodedEvent, parsed, submitted, origin>>

\* main.go 217-220: decode the record into a fresh event; a failure drops
\* the record (the oldest submitted event that is not in the queue).
PipeDecode ==
    /\ Running /\ mainPc = "decode"
    /\ IF binaryRead(record)
       THEN /\ decodedEvent' = <<DecodeEvent(sample[1])>>
            /\ UNCHANGED submitted
            /\ Goto("send")
       ELSE /\ UNCHANGED decodedEvent
            /\ submitted' = Without(submitted, Len(queueTask) + 1)
            /\ Goto("read")
    /\ sample' = <<>>
    /\ record' = 0
    /\ UNCHANGED <<hostVars, tcVars, deferVars, sigVars, chanVars, rd, db, decoded, goVars>>
    /\ UNCHANGED <<probeVars, parsed, origin>>

\* main.go 221: queueTask <- event.
PipeSend ==
    /\ Running /\ mainPc = "send"
    /\ queueState = "open"
    /\ Len(queueTask) < QueueCap
    /\ queueTask' = Append(queueTask, decodedEvent[1])
    /\ decodedEvent' = <<>>
    /\ Goto("read")
    /\ UNCHANGED <<hostVars, tcVars, deferVars, sigVars, queueState, task, readVars,
                   goVars>>
    /\ UNCHANGED <<probeVars, sample, parsed, submitted, origin>>

\* main.go 192-193: the consumer takes a task and slices it for parseHttp;
\* a slice bound out of range panics, which ends the process.
PipeRecv ==
    /\ Running /\ consPc = "range"
    /\ queueTask # <<>>
    /\ task' = Head(queueTask)
    /\ queueTask' = Tail(queueTask)
    /\ origin' = <<Head(submitted)>>
    /\ submitted' = Tail(submitted)
    /\ IF SliceInRange(Head(queueTask))
       THEN /\ parsed' = <<Slice(Head(queueTask))>>
            /\ UNCHANGED proc
       ELSE /\ parsed' = <<>>
            /\ proc' = "crashed"
    /\ UNCHANGED <<mainPc, panicking, hostVars, tcVars, deferVars, sigVars, queueState,
                   readVars, goVars>>
    /\ UNCHANGED <<probeVars, sample, decodedEvent>>

NextPipe == PipeIngress \/ PipeRead \/ PipeDecode \/ PipeSend \/ PipeRecv

SpecPipe == InitPipe /\ [][NextPipe]_vars

\* C19: every task the consumer takes has DataLen at most 4000, so the
\* slice Data[:DataLen] handed to parseHttp is within bounds (the consumer
\* never panics on it), and the slice has the length and the bytes the
\* probe submitted for that event.
C19_TaskSliceIsWhatProbeSubmitted ==
    /\ proc # "crashed"
    /\ \A i \in 1..Len(queueTask) : SliceInRange(queueTask[i])
    /\ parsed # <<>> =>
        /\ task.DataLen <= MAX_DATA_SIZE
        /\ Len(parsed[1]) = task.DataLen
        /\ Len(parsed[1]) = origin[1].data_len
        /\ parsed[1] = SubSeq(origin[1].data, 1, origin[1].data_len)
        /\ \A k \in 1..Len(parsed[1]) : parsed[1][k] \in 0..255

\* The consumer has sliced an event the probe clamped to MAX_DATA_SIZE.
C19_Witness ==
    /\ parsed # <<>>
    /\ Len(parsed[1]) = MAX_DATA_SIZE
    /\ origin[1].data_len = MAX_DATA_SIZE
    /\ task.DataLen = MAX_DATA_SIZE

====
